---- MODULE Spec2Model ----
(***************************************************************************)
(* loupe: recursive memory accounting (MemoryUsage::size_of_val) with an   *)
(* address tracker (MemoryUsageTracker).                                   *)
(*                                                                         *)
(* The walk of one size_of_val call is a stack machine: `cur` is the value *)
(* whose implementation is being entered, `stack` holds the activation     *)
(* frames of the implementations waiting for a child, `last` is the call   *)
(* that has just returned.  Values are nodes of a heap of typed values     *)
(* with addresses and flat sizes (mem::size_of_val on a 64-bit target).    *)
(*                                                                         *)
(* usize arithmetic: a byte count is held as the representative of its     *)
(* residue modulo 2^64 in (-2^63, 2^63); a negative number n stands for    *)
(* the wrapped value 2^64 + n.  A build with overflow checks panics where  *)
(* the residue would wrap; a build without them wraps.                     *)
(***************************************************************************)
EXTENDS Integers, Sequences, FiniteSets, TLC

VARIABLES
    world,          \* the scenario (the set of live values) of this run
    overflowChecks, \* TRUE: built with overflow checks (debug), FALSE: release
    pc,             \* "build" | "nobuild" | "idle" | "call" | "ret" | "panic" |
                    \* "blocked" | "overflow"
    why,            \* the reason of a panic
    stack,          \* activation frames of the implementations in progress
    cur,            \* the value whose size_of_val is being entered
    last,           \* the (sub)call that returned last
    tracker,        \* the tracker the walk in progress was given
    userTracker,    \* the caller's own tracker, kept between trait-method calls
    top,            \* the call in progress came through the crate's size_of_val
    userKind,       \* the caller's tracker type: "BTreeSet" or "HashSet"
    held,           \* lock guards the walk holds, innermost last
    poisoned,       \* the locks that are poisoned
    ncalls,         \* calls started so far
    npre,           \* direct track calls made so far
    prev,           \* the previous completed call
    lastTrack,      \* the last track call: address, set before, result
    wrapped,        \* some subtraction of this walk wrapped around
    mem,            \* the length and capacity of every String and PathBuf
    mutator         \* the lock another thread holds, and whether for writing

vars == << world, overflowChecks, pc, why, stack, cur, last, tracker,
           userTracker, top, userKind, held, poisoned, ncalls, npre, prev,
           lastTrack, wrapped, mem, mutator >>

\* The walk's control state, its tracker, its locks, and the caller's state.
ctl == << pc, why, stack, cur, last >>
trk == << tracker, lastTrack >>
lck == << held, poisoned >>
env == << world, overflowChecks, userKind, userTracker, top, ncalls, npre, prev >>
shr == << mem, mutator >>

\* ------------------------------------------------------------------ bounds

\* Calls a behaviour makes.
MaxCalls == 2

\* Direct track calls the caller makes on its own tracker.
MaxPre == 1

\* Frames the thread's stack holds before it is exhausted.
MaxDepth == 7

\* ---------------------------------------------------------------- constants

POINTER_BYTE_SIZE == 8

\* ------------------------------------------------------------- value heap

\* A value: its type's kind, its address, its flat size (mem::size_of_val),
\* the values it holds or points to, the address it points to, and for text
\* its length and capacity in bytes.
Nd(k, a, f, ks, t, l, c) ==
    [kind |-> k, addr |-> a, flat |-> f, kids |-> ks, to |-> t, len |-> l, cap |-> c]

\* bool, char, f32, ..., usize
Prim(a, f) == Nd("prim", a, f, << >>, 0, 0, 0)

\* &T ("ref") and &mut T ("refmut"): one pointer wide.
Ref(k, a, t, pointee) == Nd(k, a, POINTER_BYTE_SIZE, << pointee >>, t, 0, 0)

\* &[T]: a fat pointer (start address, length).
SliceRef(a, t, slice) == Nd("sliceref", a, 2 * POINTER_BYTE_SIZE, << slice >>, t, 0, 0)

\* *const T ("constptr"), *mut T ("mutptr"), NonNull<T> ("nonnull").
Ptr(k, a, t) == Nd(k, a, POINTER_BYTE_SIZE, << >>, t, 0, 0)

\* UnsafeCell<T>: as large as T, and get() is the address of the cell itself.
Cell(a, f) == Nd("unsafecell", a, f, << >>, a, 0, 0)

\* &str: a fat pointer to len bytes at address t.
Str(a, t, l) == Nd("strref", a, 2 * POINTER_BYTE_SIZE, << >>, t, l, 0)

\* String ("string") and PathBuf ("pathbuf"): pointer, capacity, length.
Text(k, a, t, l, c) == Nd(k, a, 3 * POINTER_BYTE_SIZE, << >>, t, l, c)

\* Everything that holds other values: [T] ("slice"), [T; N] ("array"),
\* tuples ("tuple"), derived structs ("struct") and enums ("enum", kids are
\* the fields of the live variant), Box, Arc, Option, Result (kids is the live
\* payload), Vec, HashMap (kids are key, value, key, value, ... in iteration
\* order), Mutex, RwLock.
Agg(k, a, f, ks) == Nd(k, a, f, ks, 0, 0, 0)

\* () and PhantomData<T>
Zst(k, a) == Nd(k, a, 0, << >>, 0, 0, 0)

\* test_pointer, test_mutable_pointer, test_nonnull_pointer, test_unsafecell,
\* test_reference: x: i8 and the pointers and references to it; an array of
\* two equal raw pointers; an UnsafeCell<(i64, i64)>; a reference to the
\* UnsafeCell<i8>; a tuple (*const i8, &i8) of a pointer and a reference to x.
HeapPtr ==
    ("x" :> Prim(100, 1)) @@
    ("p" :> Ptr("constptr", 110, 100)) @@
    ("m" :> Ptr("mutptr", 118, 100)) @@
    ("nn" :> Ptr("nonnull", 126, 100)) @@
    ("cell" :> Cell(134, 1)) @@
    ("cell2" :> Cell(136, 16)) @@
    ("rx" :> Ref("ref", 152, 100, "x")) @@
    ("rmx" :> Ref("refmut", 160, 100, "x")) @@
    ("pp" :> Agg("array", 168, 16, << "pp1", "pp2" >>)) @@
    ("pp1" :> Ptr("constptr", 168, 100)) @@
    ("pp2" :> Ptr("constptr", 176, 100)) @@
    ("rcell" :> Ref("ref", 184, 134, "cell")) @@
    ("mix" :> Agg("tuple", 192, 16, << "mix1", "mix2" >>)) @@
    ("mix1" :> Ptr("constptr", 192, 100)) @@
    ("mix2" :> Ref("ref", 200, 100, "x"))

\* test_str, test_string, test_pathbuf, test_slice_dynamically_sized: "abc",
\* String::new(), a String of 3 bytes in a buffer of 8, a PathBuf of capacity
\* 8, [String; 1], (String, i8), enum Holder { S(String) }, and &[i16] of
\* two elements and of three, both starting at one address.
HeapStr ==
    ("abc" :> Str(200, 900, 3)) @@
    ("empty" :> Text("string", 216, 1, 0, 0)) @@
    ("hello" :> Text("string", 240, 910, 3, 8)) @@
    ("path" :> Text("pathbuf", 264, 920, 3, 8)) @@
    ("arrS" :> Agg("array", 288, 24, << "arrS1" >>)) @@
    ("arrS1" :> Text("string", 288, 1, 0, 0)) @@
    ("tupS" :> Agg("tuple", 312, 32, << "tupS1", "tupS2" >>)) @@
    ("tupS1" :> Text("string", 312, 1, 0, 0)) @@
    ("tupS2" :> Prim(336, 1)) @@
    ("holder" :> Agg("enum", 344, 24, << "holder1" >>)) @@
    ("holder1" :> Text("string", 344, 1, 0, 0)) @@
    ("sl" :> SliceRef(368, 950, "slice")) @@
    ("slice" :> Agg("slice", 950, 4, << "slice1", "slice2" >>)) @@
    ("slice1" :> Prim(950, 2)) @@
    ("slice2" :> Prim(952, 2)) @@
    ("sl3" :> SliceRef(384, 950, "slice3")) @@
    ("slice3" :> Agg("slice", 950, 6, << "slice1", "slice2", "slice33" >>)) @@
    ("slice33" :> Prim(954, 2))

\* test_array, test_tuple, test_box, test_option, test_result and the derive
\* tests: [[i16; 3]; 5], (i8, i16), Point { x: i32, y: i32 }, Empty,
\* Padding { x: i8, y: i32, z: i8 }, Things::A, Things::E(i32, i32),
\* Some(1i32), None::<i32>, Ok::<i8, i16>(1), Err::<i8, i16>(2),
\* Box<(i8, i16)>, (&Box<(i8, i16)>, &(i8, i16)) of that Box and of what it
\* owns, (), PhantomData.
HeapAgg ==
    ("a35" :> Agg("array", 400, 30, << "a1", "a2", "a3", "a4", "a5" >>)) @@
    ("a1" :> Agg("array", 400, 6, << "a11", "a12", "a13" >>)) @@
    ("a2" :> Agg("array", 406, 6, << "a21", "a22", "a23" >>)) @@
    ("a3" :> Agg("array", 412, 6, << "a31", "a32", "a33" >>)) @@
    ("a4" :> Agg("array", 418, 6, << "a41", "a42", "a43" >>)) @@
    ("a5" :> Agg("array", 424, 6, << "a51", "a52", "a53" >>)) @@
    ("a11" :> Prim(400, 2)) @@ ("a12" :> Prim(402, 2)) @@ ("a13" :> Prim(404, 2)) @@
    ("a21" :> Prim(406, 2)) @@ ("a22" :> Prim(408, 2)) @@ ("a23" :> Prim(410, 2)) @@
    ("a31" :> Prim(412, 2)) @@ ("a32" :> Prim(414, 2)) @@ ("a33" :> Prim(416, 2)) @@
    ("a41" :> Prim(418, 2)) @@ ("a42" :> Prim(420, 2)) @@ ("a43" :> Prim(422, 2)) @@
    ("a51" :> Prim(424, 2)) @@ ("a52" :> Prim(426, 2)) @@ ("a53" :> Prim(428, 2)) @@
    ("tup" :> Agg("tuple", 432, 4, << "tup1", "tup2" >>)) @@
    ("tup1" :> Prim(432, 1)) @@ ("tup2" :> Prim(434, 2)) @@
    ("point" :> Agg("struct", 440, 8, << "pointx", "pointy" >>)) @@
    ("pointx" :> Prim(440, 4)) @@ ("pointy" :> Prim(444, 4)) @@
    ("unitS" :> Agg("struct", 448, 0, << >>)) @@
    ("padding" :> Agg("struct", 448, 8, << "padx", "pady", "padz" >>)) @@
    ("padx" :> Prim(448, 1)) @@ ("pady" :> Prim(452, 4)) @@ ("padz" :> Prim(449, 1)) @@
    ("thA" :> Agg("enum", 456, 12, << >>)) @@
    ("thE" :> Agg("enum", 468, 12, << "thE1", "thE2" >>)) @@
    ("thE1" :> Prim(472, 4)) @@ ("thE2" :> Prim(476, 4)) @@
    ("some" :> Agg("option", 480, 8, << "some1" >>)) @@
    ("some1" :> Prim(484, 4)) @@
    ("none" :> Agg("option", 488, 8, << >>)) @@
    ("ok" :> Agg("result", 496, 4, << "ok1" >>)) @@
    ("ok1" :> Prim(497, 1)) @@
    ("err" :> Agg("result", 500, 4, << "err1" >>)) @@
    ("err1" :> Prim(502, 2)) @@
    ("bx" :> Agg("box", 504, 8, << "bxt" >>)) @@
    ("bxt" :> Agg("tuple", 960, 4, << "bxt1", "bxt2" >>)) @@
    ("bxt1" :> Prim(960, 1)) @@ ("bxt2" :> Prim(962, 2)) @@
    ("both" :> Agg("tuple", 520, 16, << "both1", "both2" >>)) @@
    ("both1" :> Ref("ref", 520, 504, "bx")) @@
    ("both2" :> Ref("ref", 528, 960, "bxt")) @@
    ("unit" :> Zst("unit", 512)) @@
    ("phantom" :> Zst("phantom", 512))

\* test_vec, test_vec_not_unique, test_hashmap_not_unique: one: i32 and
\* two: i32, Vec<&i32> = [&one, &two, &one], HashMap<i8, &i32> =
\* {1: &one, 2: &two, 3: &one}, Vec<i8> = [1, 2, 3], and &one.
HeapColl ==
    ("one" :> Prim(600, 4)) @@
    ("two" :> Prim(604, 4)) @@
    ("vec" :> Agg("vec", 608, 24, << "vec1", "vec2", "vec3" >>)) @@
    ("vec1" :> Ref("ref", 1000, 600, "one")) @@
    ("vec2" :> Ref("ref", 1008, 604, "two")) @@
    ("vec3" :> Ref("ref", 1016, 600, "one")) @@
    ("map" :> Agg("hashmap", 632, 48,
                  << "mapk1", "mapv1", "mapk2", "mapv2", "mapk3", "mapv3" >>)) @@
    ("mapk1" :> Prim(1100, 1)) @@ ("mapv1" :> Ref("ref", 1104, 600, "one")) @@
    ("mapk2" :> Prim(1112, 1)) @@ ("mapv2" :> Ref("ref", 1116, 604, "two")) @@
    ("mapk3" :> Prim(1124, 1)) @@ ("mapv3" :> Ref("ref", 1128, 600, "one")) @@
    ("bytes" :> Agg("vec", 680, 24, << "b1", "b2", "b3" >>)) @@
    ("b1" :> Prim(1200, 1)) @@ ("b2" :> Prim(1201, 1)) @@ ("b3" :> Prim(1202, 1)) @@
    ("r1" :> Ref("ref", 704, 600, "one"))

\* test_arc, test_mutex, test_rwlock: Arc<i32>, Mutex<i32>, RwLock<i32>, a
\* poisoned Mutex<i32>, and two rings
\*   struct Node { next: Mutex<Option<Arc<Node>>> }  (resp. RwLock)
\* of one node whose next is an Arc of the node itself; a Vec<Arc<i32>> of
\* two clones of one Arc; a Mutex<String> another thread writes to; a tuple
\* (i8, Mutex<i32>) whose Mutex is the poisoned one.
HeapSync ==
    ("arc" :> Agg("arc", 800, 8, << "arc1" >>)) @@
    ("arc1" :> Prim(1316, 4)) @@
    ("mx" :> Agg("mutex", 808, 16, << "mx1" >>)) @@
    ("mx1" :> Prim(820, 4)) @@
    ("bad" :> Agg("mutex", 824, 16, << "bad1" >>)) @@
    ("bad1" :> Prim(836, 4)) @@
    ("rw" :> Agg("rwlock", 840, 16, << "rw1" >>)) @@
    ("rw1" :> Prim(852, 4)) @@
    ("ca" :> Agg("arc", 856, 8, << "cn" >>)) @@
    ("cn" :> Agg("struct", 1416, 24, << "cnm" >>)) @@
    ("cnm" :> Agg("mutex", 1416, 24, << "cno" >>)) @@
    ("cno" :> Agg("option", 1432, 8, << "cb" >>)) @@
    ("cb" :> Agg("arc", 1432, 8, << "cn" >>)) @@
    ("ra" :> Agg("arc", 864, 8, << "rn" >>)) @@
    ("rn" :> Agg("struct", 1516, 24, << "rnl" >>)) @@
    ("rnl" :> Agg("rwlock", 1516, 24, << "rno" >>)) @@
    ("rno" :> Agg("option", 1532, 8, << "rb" >>)) @@
    ("rb" :> Agg("arc", 1532, 8, << "rn" >>)) @@
    ("owners" :> Agg("vec", 872, 24, << "owner1", "owner2" >>)) @@
    ("owner1" :> Agg("arc", 1600, 8, << "shared" >>)) @@
    ("owner2" :> Agg("arc", 1608, 8, << "shared" >>)) @@
    ("shared" :> Prim(1632, 4)) @@
    ("ms" :> Agg("mutex", 880, 40, << "ms1" >>)) @@
    ("ms1" :> Text("string", 896, 1, 0, 0)) @@
    ("wrap" :> Agg("tuple", 920, 24, << "wrap1", "bad" >>)) @@
    ("wrap1" :> Prim(920, 1))

\* #[derive(MemoryUsage)] on  union IntOrFloat { i: i32, f: f32 }  next to a
\* derived  struct Id { id: i32 }.
HeapUnion ==
    ("u" :> Agg("union", 1700, 4, << "ui", "uf" >>)) @@
    ("ui" :> Prim(1700, 4)) @@
    ("uf" :> Prim(1700, 4)) @@
    ("id" :> Agg("struct", 1704, 4, << "id1" >>)) @@
    ("id1" :> Prim(1704, 4))

Heap == HeapPtr @@ HeapStr @@ HeapAgg @@ HeapColl @@ HeapSync @@ HeapUnion

Worlds == { "ptr", "str", "agg", "coll", "sync", "union" }

\* The values a caller of the scenario measures.
Roots(w) ==
    CASE w = "ptr"  -> { "p", "m", "nn", "cell", "cell2", "rx", "rmx", "pp",
                         "rcell", "mix" }
      [] w = "str"  -> { "abc", "empty", "hello", "path", "arrS", "tupS", "holder", "sl",
                         "sl3" }
      [] w = "agg"  -> { "a35", "tup", "point", "unitS", "padding", "thA", "thE",
                         "some", "none", "ok", "err", "bx", "both", "unit",
                         "phantom" }
      [] w = "coll" -> { "vec", "map", "bytes", "r1" }
      [] w = "sync" -> { "arc", "mx", "bad", "rw", "ca", "ra", "owners", "ms",
                         "wrap" }
      [] w = "union" -> { "u", "id" }

\* The addresses a caller of the scenario tracks by hand.
PreAddrs(w) ==
    CASE w = "ptr"  -> { 100, 134 }
      [] w = "str"  -> { 900, 950 }
      [] w = "agg"  -> { 400 }
      [] w = "coll" -> { 600, 604 }
      [] w = "sync" -> { 1416 }
      [] w = "union" -> { 1700 }

\* The locks another thread poisoned before the run.
PoisonedAtStart(w) == IF w = "sync" THEN { "bad" } ELSE { }

\* The locks another thread of the scenario takes: the Mutex<String> to write
\* the String, the RwLock<i32> to read or to write.
MutatorLocks(w) == IF w = "sync" THEN { "ms", "rw" } ELSE { }

Kind(n) == Heap[n].kind
\* mem::size_of_val
FlatSize(n) == Heap[n].flat
Kids(n) == Heap[n].kids

RECURSIVE Reach(_, _)
\* The values n holds or points to, within depth d.
Reach(n, d) ==
    IF d = 0 THEN { n }
    ELSE { n } \cup UNION { Reach(Kids(n)[i], d - 1) : i \in DOMAIN Kids(n) }

\* ----------------------------------------------------------------- derive

\* The shapes (syn::Data) of the types of scenario w that carry
\* #[derive(MemoryUsage)].
DerivesOf ==
    [w \in Worlds |->
       { Kind(n) : n \in UNION { Reach(r, 3) : r \in Roots(w) } }
           \cap { "struct", "enum", "union" }]
Derives(w) == DerivesOf[w]

\* Mutant: a union is given the implementation of a struct.
DeriveMemoryUsageByFields(data) ==
    IF data = "enum" THEN "impl_enum" ELSE "impl_struct"

\* derive_memory_usage: the implementation emitted for a struct and for an
\* enum; for a union the macro panics, which fails the build.
DeriveMemoryUsage(data) ==
    CASE data = "struct" -> "impl_struct"
      [] data = "enum"   -> "impl_enum"
      [] data = "union"  -> "panic"

\* ---------------------------------------------------------------- tracker

\* Mutant: track answers whether the set already held the address.
BTreeSetTrackContains(set, a) == [new |-> a \in set, set |-> set \cup { a }]

\* impl MemoryUsageTracker for BTreeSet<*const ()>: self.insert(address),
\* true when the set did not hold the address.
BTreeSetTrack(set, a) == [new |-> a \notin set, set |-> set \cup { a }]

\* impl MemoryUsageTracker for HashSet<*const ()>: self.insert(address).
HashSetTrack(set, a) == [new |-> a \notin set, set |-> set \cup { a }]

\* tracker.track(address) through &mut dyn MemoryUsageTracker.
Track(k, set, a) ==
    IF k = "BTreeSet" THEN BTreeSetTrack(set, a) ELSE HashSetTrack(set, a)

\* The type of the tracker the walk in progress was given: the crate's
\* size_of_val makes a BTreeSet, a trait-method caller brings its own.
WalkKind == IF top THEN "BTreeSet" ELSE userKind

\* Mutant: the key tells the kind of pointer apart.
AddressAndKind(n) ==
    Heap[n].to * 8
    + (CASE Kind(n) = "constptr" -> 1 [] Kind(n) = "mutptr" -> 2
         [] Kind(n) = "nonnull" -> 3 [] Kind(n) = "unsafecell" -> 4
         [] Kind(n) = "ref" -> 5 [] Kind(n) = "refmut" -> 6 [] OTHER -> 7)

\* The key n tracks: its target cast to *const (), the bare start address
\* (*self as *const (), self.as_ptr() as *const (), self.get() as *const ()).
Address(n) == Heap[n].to

\* The walk calls tracker.track(a).
Tracks(a) ==
    /\ tracker' = Track(WalkKind, tracker, a).set
    /\ lastTrack' = [addr |-> a, before |-> tracker,
                     after |-> Track(WalkKind, tracker, a).set,
                     ret |-> Track(WalkKind, tracker, a).new]

\* ------------------------------------------------------- usize arithmetic

\* a < b on usize.
ULt(a, b) == IF (a < 0) = (b < 0) THEN a < b ELSE b < 0

\* a - b on usize: the difference, and whether it wrapped.
USub(a, b) == [val |-> a - b, underflow |-> ULt(a, b)]

\* ------------------------------------------------------------ walk steps

Range(s) == { s[i] : i \in DOMAIN s }

NoRet == [n |-> "", bytes |-> 0, rets |-> << >>, fresh |-> FALSE, t0 |-> { }]
NoCall == [n |-> "", bytes |-> 0, top |-> FALSE]
NoTrack == [addr |-> 0, before |-> { }, after |-> { }, ret |-> FALSE]

\* An activation frame: the value, the child being measured, the bytes summed
\* so far, the sizes the children returned, and the tracker's set on entry.
Frame(n, i, acc, rets, t0) ==
    [n |-> n, i |-> i, acc |-> acc, rets |-> rets, t0 |-> t0]
Top == stack[Len(stack)]
Pop == SubSeq(stack, 1, Len(stack) - 1)

\* The implementation of n returns bytes; rets are the sizes its children
\* returned, fresh tells that its track call returned true, t0 is the
\* tracker's set when it was entered.
Returns(n, bytes, rets, fresh, stk, t0) ==
    /\ pc' = "ret"
    /\ last' = [n |-> n, bytes |-> bytes, rets |-> rets, fresh |-> fresh,
                t0 |-> t0]
    /\ stack' = stk
    /\ UNCHANGED << cur, why >>

\* The implementation on top of stk calls child.size_of_val(tracker); the
\* thread's stack is finite.
Calls(child, stk) ==
    IF Len(stk) > MaxDepth
    THEN /\ pc' = "overflow"
         /\ UNCHANGED << why, stack, cur, last >>
    ELSE /\ pc' = "call"
         /\ cur' = child
         /\ stack' = stk
         /\ UNCHANGED << why, last >>

\* A panic unwinds the walk: its guards are dropped, and a MutexGuard dropped
\* while panicking poisons its Mutex (a read guard of an RwLock does not).
Panics(reason) ==
    /\ pc' = "panic"
    /\ why' = reason
    /\ held' = << >>
    /\ poisoned' = poisoned \cup { h \in Range(held) : Kind(h) = "mutex" }
    /\ UNCHANGED << stack, cur, last >>

\* How an implementation combines its children's sizes:
\*   "full"  flat + sum of child.size_of_val(tracker)
\*   "each"  flat + sum of (child.size_of_val(tracker) - size_of_val(child))
\*   "chain" flat + c1.size_of_val(tracker) - size_of_val(c1) + c2 ... , which
\*           Rust parses as (((flat + c1') - f1) + c2') - f2 ...
\*   "arm"   flat + match self { V(c1, c2) => c1' - f1 + c2' - f2 }
Start(mode, flat) == IF mode = "chain" THEN flat ELSE 0

Step(mode, acc, ret, kidflat) ==
    CASE mode = "full" -> [val |-> acc + ret, underflow |-> FALSE]
      [] mode = "each" -> [val |-> acc + USub(ret, kidflat).val,
                           underflow |-> USub(ret, kidflat).underflow]
      [] OTHER         -> USub(acc + ret, kidflat)

Final(mode, flat, acc) == IF mode = "chain" THEN acc ELSE flat + acc

\* An implementation is entered: it returns at once when it holds nothing,
\* else it measures its first child.
WalkEnter(mode) ==
    /\ IF Kids(cur) = << >>
       THEN Returns(cur, Final(mode, FlatSize(cur), Start(mode, FlatSize(cur))),
                    << >>, FALSE, stack, tracker)
       ELSE Calls(Kids(cur)[1],
                  Append(stack, Frame(cur, 1, Start(mode, FlatSize(cur)), << >>, tracker)))
    /\ UNCHANGED << trk, lck, wrapped, env, shr >>

\* A child has returned to the implementation on top of the stack: it adds
\* the child's share and measures the next child, or returns.
WalkNext(mode) ==
    LET f == Top
        ks == Kids(f.n)
        s == Step(mode, f.acc, last.bytes, FlatSize(ks[f.i]))
        rets2 == Append(f.rets, last.bytes)
    IN  IF s.underflow /\ overflowChecks
        THEN /\ Panics("underflow")
             /\ UNCHANGED << trk, wrapped, env, shr >>
        ELSE /\ IF f.i < Len(ks)
                THEN Calls(ks[f.i + 1],
                           Append(Pop, Frame(f.n, f.i + 1, s.val, rets2, f.t0)))
                ELSE Returns(f.n, Final(mode, FlatSize(f.n), s.val), rets2, FALSE, Pop, f.t0)
             /\ wrapped' = (wrapped \/ s.underflow)
             /\ UNCHANGED << trk, lck, env, shr >>

Entering(kinds) == pc = "call" /\ Kind(cur) \in kinds
Resuming(kinds) == pc = "ret" /\ stack # << >> /\ Kind(Top.n) \in kinds

\* ------------------------------------------------------ implementations

\* impl_memory_usage_for_primitive!: mem::size_of_val(self).
PrimitiveSizeOfVal ==
    /\ Entering({ "prim" })
    /\ Returns(cur, FlatSize(cur), << >>, FALSE, stack, tracker)
    /\ UNCHANGED << trk, lck, wrapped, env, shr >>

\* impl MemoryUsage for () and for PhantomData<T>: 0.
EmptySizeOfVal ==
    /\ Entering({ "unit", "phantom" })
    /\ Returns(cur, 0, << >>, FALSE, stack, tracker)
    /\ UNCHANGED << trk, lck, wrapped, env, shr >>

\* Mutant: an opaque address costs a pointer whether or not it is new.
AddressCostFlat(new) == POINTER_BYTE_SIZE

\* What an opaque address costs: a pointer when newly tracked, else nothing.
AddressCost(new) == IF new THEN POINTER_BYTE_SIZE ELSE 0

\* impl MemoryUsage for *const T, *mut T, NonNull<T>.
PointerSizeOfVal ==
    /\ Entering({ "constptr", "mutptr", "nonnull" })
    /\ Tracks(Address(cur))
    /\ Returns(cur, AddressCost(Track(WalkKind, tracker, Address(cur)).new),
               << >>, Track(WalkKind, tracker, Address(cur)).new, stack, tracker)
    /\ UNCHANGED << lck, wrapped, env, shr >>

\* impl MemoryUsage for UnsafeCell<T>: tracks self.get().
UnsafeCellSizeOfVal ==
    /\ Entering({ "unsafecell" })
    /\ Tracks(Address(cur))
    /\ Returns(cur, AddressCost(Track(WalkKind, tracker, Address(cur)).new),
               << >>, Track(WalkKind, tracker, Address(cur)).new, stack, tracker)
    /\ UNCHANGED << lck, wrapped, env, shr >>

\* A reference is entered: size_of_val(self) + if tracker.track(address)
\* { pointee.size_of_val(tracker) } else { 0 }.
BorrowEnter ==
    /\ Tracks(Address(cur))
    /\ IF Track(WalkKind, tracker, Address(cur)).new
       THEN Calls(Kids(cur)[1], Append(stack, Frame(cur, 1, 0, << >>, tracker)))
       ELSE Returns(cur, FlatSize(cur) + 0, << >>, FALSE, stack, tracker)
    /\ UNCHANGED << lck, wrapped, env, shr >>

\* The pointee of a newly tracked reference has been measured.
BorrowNext ==
    /\ Returns(Top.n, FlatSize(Top.n) + last.bytes, << last.bytes >>, TRUE, Pop,
               Top.t0)
    /\ UNCHANGED << trk, lck, wrapped, env, shr >>

\* impl MemoryUsage for &T and for &mut T.
ReferenceSizeOfVal ==
    \/ Entering({ "ref", "refmut" }) /\ BorrowEnter
    \/ Resuming({ "ref", "refmut" }) /\ BorrowNext

\* impl MemoryUsage for &[T].
SliceRefSizeOfVal ==
    \/ Entering({ "sliceref" }) /\ BorrowEnter
    \/ Resuming({ "sliceref" }) /\ BorrowNext

\* impl MemoryUsage for [T].
SliceSizeOfVal ==
    \/ Entering({ "slice" }) /\ WalkEnter("each")
    \/ Resuming({ "slice" }) /\ WalkNext("each")

\* Mutant: the array adds each element's full size.
ArrayModeFull == "full"

\* impl MemoryUsage for [T; N]: size_of_val(self) + self.iter().map(|value|
\* value.size_of_val(tracker) - mem::size_of_val(value)).sum().
ArrayMode == "each"

ArraySizeOfVal ==
    \/ Entering({ "array" }) /\ WalkEnter(ArrayMode)
    \/ Resuming({ "array" }) /\ WalkNext(ArrayMode)

\* <[u8] as MemoryUsage>::size_of_val on l bytes: the slice's flat size plus,
\* for each u8, its size_of_val less its flat size.
ByteSliceSizeOfVal(l) == l * 1 + l * (1 - 1)

\* impl MemoryUsage for &str: size_of_val(self) + self.as_bytes()
\* .size_of_val(tracker); the receiver &[u8] selects the impl for [u8], which
\* tracks nothing.
StrRefCost(l) == 2 * POINTER_BYTE_SIZE + ByteSliceSizeOfVal(l)

StrSizeOfVal ==
    /\ Entering({ "strref" })
    /\ Returns(cur, StrRefCost(Heap[cur].len), << >>, FALSE, stack, tracker)
    /\ UNCHANGED << trk, lck, wrapped, env, shr >>

\* Mutant: the buffer of n is shrunk to its length when it is measured.
ShrinkToFit(m, n) == [m EXCEPT ![n].cap = m[n].len]

\* fn size_of_val(&self, ..): the value is borrowed shared, as_str() and
\* capacity() read it; the buffers m are what they were.
SharedBorrow(m, n) == m

\* impl MemoryUsage for String: self.as_str().size_of_val(tracker), the
\* size of the &str.
StringCost(n) == StrRefCost(mem[n].len)

StringSizeOfVal ==
    /\ Entering({ "string" })
    /\ Returns(cur, StringCost(cur), << >>, FALSE, stack, tracker)
    /\ mem' = SharedBorrow(mem, cur)
    /\ UNCHANGED << trk, lck, wrapped, env, mutator >>

\* impl MemoryUsage for PathBuf: size_of_val(self) + self.capacity().
PathBufSizeOfVal ==
    /\ Entering({ "pathbuf" })
    /\ Returns(cur, FlatSize(cur) + mem[cur].cap, << >>, FALSE, stack, tracker)
    /\ mem' = SharedBorrow(mem, cur)
    /\ UNCHANGED << trk, lck, wrapped, env, mutator >>

\* impl_memory_usage_for_tuple!
TupleSizeOfVal ==
    \/ Entering({ "tuple" }) /\ WalkEnter("chain")
    \/ Resuming({ "tuple" }) /\ WalkNext("chain")

\* Mutant: the generated sum leaves out the - size_of_val(field).
StructModeFull == "full"

\* derive_memory_usage_for_struct: std::mem::size_of_val(self) + #sum, the
\* sum's terms joined by + with no parentheses; 0 without fields.
StructMode == "chain"

StructSizeOfVal ==
    \/ Entering({ "struct" }) /\ WalkEnter(StructMode)
    \/ Resuming({ "struct" }) /\ WalkNext(StructMode)

\* derive_memory_usage_for_enum: std::mem::size_of_val(self) + match self
\* { the live variant => its sum, 0 without fields }.
EnumSizeOfVal ==
    \/ Entering({ "enum" }) /\ WalkEnter("arm")
    \/ Resuming({ "enum" }) /\ WalkNext("arm")

\* Mutant: the Box tracks what it points to, as a reference does.
BoxTrackedSizeOfVal ==
    \/ Entering({ "box" }) /\ BorrowEnter
    \/ Resuming({ "box" }) /\ BorrowNext

\* impl MemoryUsage for Box<T>.
BoxSizeOfVal ==
    \/ Entering({ "box" }) /\ WalkEnter("full")
    \/ Resuming({ "box" }) /\ WalkNext("full")

\* Mutant: the Arc adds only what its pointee holds beyond its flat size.
ArcModeEach == "each"

\* impl MemoryUsage for Arc<T>: size_of_val(self) + self.as_ref()
\* .size_of_val(tracker).
ArcMode == "full"

ArcSizeOfVal ==
    \/ Entering({ "arc" }) /\ WalkEnter(ArcMode)
    \/ Resuming({ "arc" }) /\ WalkNext(ArcMode)

\* Mutant: the Option adds only what its payload holds beyond its flat size.
OptionModeEach == "each"

\* impl MemoryUsage for Option<T>: size_of_val(self) + self.iter().map(
\* |value| value.size_of_val(tracker)).sum().
OptionMode == "full"

OptionSizeOfVal ==
    \/ Entering({ "option" }) /\ WalkEnter(OptionMode)
    \/ Resuming({ "option" }) /\ WalkNext(OptionMode)

\* impl MemoryUsage for Result<T, E>.
ResultSizeOfVal ==
    \/ Entering({ "result" }) /\ WalkEnter("full")
    \/ Resuming({ "result" }) /\ WalkNext("full")

\* Mutant: the Vec adds only each element's extra, as an array does.
VecModeEach == "each"

\* impl MemoryUsage for Vec<T>.
VecMode == "full"

VecSizeOfVal ==
    \/ Entering({ "vec" }) /\ WalkEnter(VecMode)
    \/ Resuming({ "vec" }) /\ WalkNext(VecMode)

\* impl MemoryUsage for HashMap<K, V>: for each entry the key, then the value.
HashMapSizeOfVal ==
    \/ Entering({ "hashmap" }) /\ WalkEnter("full")
    \/ Resuming({ "hashmap" }) /\ WalkNext("full")

\* Mutant: the guard is forgotten, the lock stays taken.
ForgetGuard(h) == h

\* The temporary guard of self.lock().unwrap() / self.read().unwrap() is
\* dropped at the end of the expression: the innermost lock is released.
DropGuard(h) == SubSeq(h, 1, Len(h) - 1)

\* Mutant: a poisoned lock yields its guard all the same.
UnwrapOrIntoInner(isPoisoned) == "guard"

\* LockResult::unwrap(): panics on the PoisonError of a poisoned lock.
Unwrap(isPoisoned) == IF isPoisoned THEN "panic" ELSE "guard"

\* Another thread holds lock m in a way that makes the walk wait: any hold of
\* a Mutex, a write hold of an RwLock.
Contended(m) ==
    mutator.lock = m /\ (Kind(m) = "mutex" \/ mutator.write)

\* The protected value has been measured: the guard is dropped.
GuardedNext ==
    /\ Returns(Top.n, FlatSize(Top.n) + last.bytes, << last.bytes >>, FALSE, Pop,
               Top.t0)
    /\ held' = DropGuard(held)
    /\ UNCHANGED << trk, poisoned, wrapped, env, shr >>

\* impl MemoryUsage for Mutex<T>: size_of_val(self) + self.lock().unwrap()
\* .size_of_val(tracker).  lock() on a Mutex the thread already holds panics
\* or never returns, on a Mutex another thread holds it waits; unwrap()
\* panics on a poisoned Mutex.
MutexSizeOfVal ==
    \/ /\ Entering({ "mutex" })
       /\ cur \in Range(held)
       /\ \/ /\ pc' = "blocked"
             /\ UNCHANGED << why, stack, cur, last, lck >>
          \/ Panics("relock")
       /\ UNCHANGED << trk, wrapped, env, shr >>
    \/ /\ Entering({ "mutex" })
       /\ cur \notin Range(held)
       /\ ~Contended(cur)
       /\ IF Unwrap(cur \in poisoned) = "panic"
          THEN Panics("poison")
          ELSE /\ Calls(Kids(cur)[1], Append(stack, Frame(cur, 1, 0, << >>, tracker)))
               /\ held' = Append(held, cur)
               /\ UNCHANGED poisoned
       /\ UNCHANGED << trk, wrapped, env, shr >>
    \/ Resuming({ "mutex" }) /\ GuardedNext

\* impl MemoryUsage for RwLock<T>: size_of_val(self) + self.read().unwrap()
\* .size_of_val(tracker).  read() on an RwLock the thread already holds may
\* panic, else it is granted again; on an RwLock another thread holds for
\* writing it waits.
RwLockSizeOfVal ==
    \/ /\ Entering({ "rwlock" })
       /\ cur \in Range(held)
       /\ Panics("relock")
       /\ UNCHANGED << trk, wrapped, env, shr >>
    \/ /\ Entering({ "rwlock" })
       /\ ~Contended(cur)
       /\ IF Unwrap(cur \in poisoned) = "panic"
          THEN Panics("poison")
          ELSE /\ Calls(Kids(cur)[1], Append(stack, Frame(cur, 1, 0, << >>, tracker)))
               /\ held' = Append(held, cur)
               /\ UNCHANGED poisoned
       /\ UNCHANGED << trk, wrapped, env, shr >>
    \/ Resuming({ "rwlock" }) /\ GuardedNext

\* ------------------------------------------------------------------ build

\* The program of the scenario is compiled: every derive is expanded, and a
\* derive that panics leaves no program to run.
Build ==
    /\ pc = "build"
    /\ pc' = IF \E data \in Derives(world) : DeriveMemoryUsage(data) = "panic"
             THEN "nobuild" ELSE "idle"
    /\ UNCHANGED << why, stack, cur, last, trk, lck, wrapped, env, shr >>

\* ----------------------------------------------------------------- callers

\* Mutant: the crate's size_of_val walks with the caller's tracker.
StaleTracker == userTracker

\* The tracker the crate's size_of_val hands to the walk: BTreeSet::new().
FreshTracker == { }

\* loupe::size_of_val(&root): <T as MemoryUsage>::size_of_val(value,
\* &mut BTreeSet::new()); the tracker is dropped when the call returns.
SizeOfVal ==
    \/ /\ pc = "idle"
       /\ ncalls < MaxCalls
       /\ \E r \in Roots(world) :
            /\ cur' = r
            /\ pc' = "call"
            /\ top' = TRUE
            /\ tracker' = FreshTracker
            /\ ncalls' = ncalls + 1
            /\ wrapped' = FALSE
            /\ UNCHANGED << why, stack, last, lastTrack, lck, world,
                            overflowChecks, userKind, userTracker, npre, prev,
                            shr >>
    \/ /\ pc = "ret"
       /\ stack = << >>
       /\ top
       /\ pc' = "idle"
       /\ prev' = [n |-> last.n, bytes |-> last.bytes, top |-> TRUE]
       /\ tracker' = { }
       /\ UNCHANGED << why, stack, cur, last, lastTrack, lck, wrapped, world,
                       overflowChecks, userKind, userTracker, top, ncalls, npre,
                       shr >>

\* MemoryUsage::size_of_val(&root, &mut tracker) with the caller's tracker,
\* as assert_size_of_val_eq! does.
TraitSizeOfVal ==
    \/ /\ pc = "idle"
       /\ ncalls < MaxCalls
       /\ \E r \in Roots(world) :
            /\ cur' = r
            /\ pc' = "call"
            /\ top' = FALSE
            /\ tracker' = userTracker
            /\ ncalls' = ncalls + 1
            /\ wrapped' = FALSE
            /\ UNCHANGED << why, stack, last, lastTrack, lck, world,
                            overflowChecks, userKind, userTracker, npre, prev,
                            shr >>
    \/ /\ pc = "ret"
       /\ stack = << >>
       /\ ~top
       /\ pc' = "idle"
       /\ prev' = [n |-> last.n, bytes |-> last.bytes, top |-> FALSE]
       /\ userTracker' = tracker
       /\ tracker' = { }
       /\ UNCHANGED << why, stack, cur, last, lastTrack, lck, wrapped, world,
                       overflowChecks, userKind, top, ncalls, npre, shr >>

\* tracker.track(address) called by the tracker's owner.
UserTrack ==
    /\ pc = "idle"
    /\ npre < MaxPre
    /\ \E a \in PreAddrs(world) :
         /\ userTracker' = Track(userKind, userTracker, a).set
         /\ lastTrack' = [addr |-> a, before |-> userTracker,
                          after |-> Track(userKind, userTracker, a).set,
                          ret |-> Track(userKind, userTracker, a).new]
    /\ npre' = npre + 1
    /\ UNCHANGED << ctl, tracker, lck, wrapped, world, overflowChecks, userKind,
                    top, ncalls, prev, shr >>

\* ------------------------------------------------------- another thread

NoLock == [lock |-> "", write |-> FALSE]

\* Another thread takes lock m: lock() of a Mutex, write() of an RwLock, once
\* nobody holds it.
MutatorLock(m) ==
    /\ mutator = NoLock
    /\ m \notin Range(held)
    /\ m \notin poisoned
    /\ mutator' = [lock |-> m, write |-> TRUE]
    /\ UNCHANGED << ctl, trk, lck, wrapped, env, mem >>

\* Another thread takes RwLock m for reading, whoever else reads it.
MutatorRead(m) ==
    /\ mutator = NoLock
    /\ Kind(m) = "rwlock"
    /\ m \notin poisoned
    /\ mutator' = [lock |-> m, write |-> FALSE]
    /\ UNCHANGED << ctl, trk, lck, wrapped, env, mem >>

\* The thread that holds the Mutex<String> writes the String: push_str("abc")
\* on the empty String (the buffer grows to 8 bytes), else clear().
MutatorWrite ==
    /\ mutator.lock # "" /\ mutator.write
    /\ Kids(mutator.lock)[1] \in DOMAIN mem
    /\ LET t == Kids(mutator.lock)[1]
       IN  mem' = [mem EXCEPT ![t] =
                     IF @.len = 0 THEN [len |-> 3, cap |-> 8]
                     ELSE [len |-> 0, cap |-> @.cap]]
    /\ UNCHANGED << ctl, trk, lck, wrapped, env, mutator >>

\* The other thread drops its guard.
MutatorUnlock ==
    /\ mutator # NoLock
    /\ mutator' = NoLock
    /\ UNCHANGED << ctl, trk, lck, wrapped, env, mem >>

\* The other thread panics with its guard: a lock held for writing is
\* poisoned.
MutatorPanic ==
    /\ mutator # NoLock
    /\ mutator' = NoLock
    /\ poisoned' = IF mutator.write THEN poisoned \cup { mutator.lock } ELSE poisoned
    /\ UNCHANGED << ctl, trk, held, wrapped, env, mem >>

\* ------------------------------------------------------------ specification

Init ==
    /\ world \in Worlds
    /\ overflowChecks \in BOOLEAN
    /\ userKind \in { "BTreeSet", "HashSet" }
    /\ pc = "build"
    /\ why = ""
    /\ stack = << >>
    /\ cur = ""
    /\ last = NoRet
    /\ tracker = { }
    /\ userTracker = { }
    /\ top = FALSE
    /\ held = << >>
    /\ poisoned = PoisonedAtStart(world)
    /\ ncalls = 0
    /\ npre = 0
    /\ prev = NoCall
    /\ lastTrack = NoTrack
    /\ wrapped = FALSE
    /\ mem = [n \in { t \in DOMAIN Heap : Kind(t) \in { "string", "pathbuf" } } |->
                [len |-> Heap[n].len, cap |-> Heap[n].cap]]
    /\ mutator = NoLock

Next ==
    \/ Build
    \/ SizeOfVal
    \/ TraitSizeOfVal
    \/ UserTrack
    \/ PrimitiveSizeOfVal
    \/ EmptySizeOfVal
    \/ PointerSizeOfVal
    \/ UnsafeCellSizeOfVal
    \/ ReferenceSizeOfVal
    \/ SliceRefSizeOfVal
    \/ SliceSizeOfVal
    \/ ArraySizeOfVal
    \/ StrSizeOfVal
    \/ StringSizeOfVal
    \/ PathBufSizeOfVal
    \/ TupleSizeOfVal
    \/ StructSizeOfVal
    \/ EnumSizeOfVal
    \/ BoxSizeOfVal
    \/ ArcSizeOfVal
    \/ OptionSizeOfVal
    \/ ResultSizeOfVal
    \/ VecSizeOfVal
    \/ HashMapSizeOfVal
    \/ MutexSizeOfVal
    \/ RwLockSizeOfVal
    \/ \E m \in MutatorLocks(world) : MutatorLock(m)
    \/ \E m \in MutatorLocks(world) : MutatorRead(m)
    \/ MutatorWrite
    \/ MutatorUnlock
    \/ MutatorPanic

Spec == Init /\ [][Next]_vars

\* ------------------------------------------------------------------ claims

\* A call, of the root or of a child, has just returned.
Returned == pc = "ret"

\* The root's call has just returned to its caller.
RootReturned == pc = "ret" /\ stack = << >>

\* C1: whatever the type and whatever the tracker holds, size_of_val returns
\* at least the flat size (mem::size_of_val) of the value.
C1_AtLeastFlat == Returned => ~ULt(last.bytes, FlatSize(last.n))

\* C2: no subtraction child.size_of_val(tracker) - mem::size_of_val(child)
\* of a slice, array, tuple or derived implementation underflows: none wraps
\* and none panics.
C2_NoUnderflow == ~wrapped /\ ~(pc = "panic" /\ why = "underflow")

\* The borrowed-reference kinds: &T, &mut T, &[T], &str.
RefKinds == { "ref", "refmut", "sliceref", "strref" }

\* What the pointee of the reference that has just returned costs: the size
\* its pointee returned, or the bytes of a &str.
PointeeCost ==
    IF Kind(last.n) = "strref" THEN ByteSliceSizeOfVal(Heap[last.n].len)
    ELSE IF last.rets = << >> THEN 0 ELSE last.rets[1]

\* C3: of two references to one address measured one after the other with
\* the same tracker, the first returns its flat size plus the full cost of
\* the pointee and the second returns its flat size alone.
C3_ReferenceDedup ==
    /\ (RootReturned /\ ~top /\ Kind(last.n) \in RefKinds
          /\ Heap[last.n].to \notin last.t0)
       => last.bytes = FlatSize(last.n) + PointeeCost
    /\ (RootReturned /\ ~top /\ prev.n # "" /\ ~prev.top
          /\ Kind(last.n) \in RefKinds /\ Kind(prev.n) \in RefKinds
          /\ Heap[prev.n].to = Heap[last.n].to)
       => last.bytes = FlatSize(last.n)

\* The kinds that hold their children inline, and those that hold them in an
\* allocation of their own.
InlineKinds ==
    { "array", "slice", "tuple", "struct", "enum", "option", "result", "mutex", "rwlock" }
BoxedKinds == { "box", "arc", "vec", "hashmap" }
BufferKinds == { "string", "pathbuf" }
LeafKinds == { "prim", "unit", "phantom" }

RECURSIVE OwnedTree(_, _)
\* n reaches only owned values, within depth d.
OwnedTree(n, d) ==
    /\ d > 0
    /\ Kind(n) \in InlineKinds \cup BoxedKinds \cup BufferKinds \cup LeafKinds
    /\ \A i \in DOMAIN Kids(n) : OwnedTree(Kids(n)[i], d - 1)

RECURSIVE SumSeq(_)
SumSeq(q) == IF q = << >> THEN 0 ELSE q[1] + SumSeq(Tail(q))

RECURSIVE Footprint(_, _)
\* The bytes of n and of every value it owns, each counted once: an inline
\* child lies within the flat size of its holder, a boxed child and the
\* buffer of a String or PathBuf lie outside it.
Footprint(n, d) ==
    IF d = 0 THEN 0
    ELSE FlatSize(n)
         + (IF Kind(n) \in BufferKinds THEN Heap[n].cap ELSE 0)
         + SumSeq([i \in DOMAIN Kids(n) |->
                     IF Kind(n) \in BoxedKinds
                     THEN Footprint(Kids(n)[i], d - 1)
                     ELSE Footprint(Kids(n)[i], d - 1) - FlatSize(Kids(n)[i])])

\* C4: for a root that owns a tree, the crate's size_of_val returns exactly
\* the sum of the flat sizes of the root and of everything it owns, each
\* counted once.
C4_ExactFootprint ==
    (RootReturned /\ top /\ OwnedTree(last.n, MaxDepth))
    => last.bytes = Footprint(last.n, MaxDepth)

\* C5: a walk never waits forever for a lock and never recurses until the
\* stack is exhausted.
C5_WalkTerminates == pc # "blocked" /\ pc # "overflow"

\* The extras of the children of the call that has just returned: what each
\* returned less its flat size.
Extras ==
    [i \in DOMAIN last.rets |-> last.rets[i] - FlatSize(Kids(last.n)[i])]

\* The i-th element of the collection that has just returned is a reference
\* to an address the tracker held on entry or an earlier element referred to.
SeenBefore(i) ==
    \/ Heap[Kids(last.n)[i]].to \in last.t0
    \/ \E j \in 1 .. (i - 1) :
         /\ Kind(Kids(last.n)[j]) \in { "ref", "refmut" }
         /\ Heap[Kids(last.n)[j]].to = Heap[Kids(last.n)[i]].to

\* C6: a Vec or HashMap returns its flat size plus the full size_of_val of
\* every element (and key), all measured with the one tracker; an element
\* that is a reference costs a pointer plus its pointee, the pointee only
\* the first time its address is met.
C6_OwningCollection ==
    (Returned /\ Kind(last.n) \in { "vec", "hashmap" })
    => /\ Len(last.rets) = Len(Kids(last.n))
       /\ last.bytes = FlatSize(last.n) + SumSeq(last.rets)
       /\ \A i \in DOMAIN last.rets :
            Kind(Kids(last.n)[i]) \in { "ref", "refmut" }
            => last.rets[i] =
                 POINTER_BYTE_SIZE
                 + (IF SeenBefore(i) THEN 0
                    ELSE FlatSize(Kids(Kids(last.n)[i])[1]))

\* test_vec_not_unique: [&one, &two, &one] with an empty tracker.
C6_Witness ==
    /\ Returned /\ last.n = "vec" /\ last.t0 = { }
    /\ last.rets = << 12, 12, 8 >> /\ last.bytes = 56

\* C7: a derived implementation returns the flat size plus, for each field
\* of the struct or of the live variant, what the field returned less its
\* flat size; without fields it adds 0 and measures nothing.
C7_Derived ==
    (Returned /\ Kind(last.n) \in { "struct", "enum" })
    => /\ Len(last.rets) = Len(Kids(last.n))
       /\ last.bytes = FlatSize(last.n) + SumSeq(Extras)
       /\ (Kids(last.n) = << >> => last.bytes = FlatSize(last.n))
       /\ (last.n = "unitS" => last.bytes = 0)
       /\ (last.n = "point" => last.bytes = 8)

\* test_struct_flat and a variant with two fields.
C7_Witness ==
    \/ Returned /\ last.n = "point" /\ last.rets = << 4, 4 >> /\ last.bytes = 8
    \/ Returned /\ last.n = "thE" /\ last.rets = << 4, 4 >> /\ last.bytes = 12

RECURSIVE PrimOnly(_, _)
\* n is a primitive or an array, slice or tuple of such, within depth d.
PrimOnly(n, d) ==
    /\ d > 0
    /\ \/ Kind(n) = "prim"
       \/ /\ Kind(n) \in { "array", "slice", "tuple" }
          /\ \A i \in DOMAIN Kids(n) : PrimOnly(Kids(n)[i], d - 1)

\* C8: an array, slice or tuple returns its flat size plus what each element
\* returned less the element's flat size, so a container of primitives
\* returns its flat size: 30 for [[i16; 3]; 5] and 4 for (i8, i16).
C8_InlineElements ==
    (Returned /\ Kind(last.n) \in { "array", "slice", "tuple" })
    => /\ Len(last.rets) = Len(Kids(last.n))
       /\ last.bytes = FlatSize(last.n) + SumSeq(Extras)
       /\ (PrimOnly(last.n, MaxDepth) => last.bytes = FlatSize(last.n))
       /\ (last.n = "a35" => last.bytes = 30)
       /\ (last.n = "tup" => last.bytes = 4)

\* test_array: [[i16; 3]; 5].
C8_Witness ==
    Returned /\ last.n = "a35" /\ last.rets = << 6, 6, 6, 6, 6 >> /\ last.bytes = 30

\* The walk in progress goes on with the tracker it was given.
SameWalk == pc \in { "call", "ret" } /\ pc' \in { "call", "ret", "panic", "blocked", "overflow" }

\* C9: track(a) returns true exactly when the set did not hold a, the set
\* holds a afterwards, and no call removes an address: the set of a walk and
\* the caller's set only grow.
C9_TrackContract ==
    /\ [](lastTrack # NoTrack
          => /\ lastTrack.ret = (lastTrack.addr \notin lastTrack.before)
             /\ lastTrack.after = lastTrack.before \cup { lastTrack.addr })
    /\ [][/\ userTracker \subseteq userTracker'
          /\ (SameWalk => tracker \subseteq tracker')]_vars

\* A walk tracked an address its tracker already held, and got false.
C9_Witness ==
    /\ pc = "ret" /\ lastTrack.addr # 0 /\ ~lastTrack.ret
    /\ lastTrack.addr \in lastTrack.before /\ lastTrack.after = lastTrack.before

\* No other thread writes to n between two calls.
Quiescent(n) == n \notin MutatorLocks(world)

\* C10: the crate's size_of_val starts every call on an empty tracker, so
\* a call on a reference finds its address new whatever was measured or
\* tracked before, and a call on the value of the previous call, which no
\* other thread wrote to in between, returns what that call returned.
C10_FreshTrackerPerCall ==
    /\ (top /\ pc = "call" /\ stack = << >>) => tracker = { }
    /\ (RootReturned /\ top /\ Kind(last.n) \in { "ref", "refmut", "sliceref" })
       => last.fresh
    /\ (RootReturned /\ top /\ prev.top /\ prev.n = last.n /\ Quiescent(last.n))
       => last.bytes = prev.bytes
    /\ (RootReturned /\ top /\ last.n = "abc")
       => last.bytes = 2 * POINTER_BYTE_SIZE + 1 * 3

\* The second of two size_of_val(&&x) in a row, the caller's own tracker
\* holding the address of x.
C10_Witness ==
    /\ RootReturned /\ top /\ prev.top /\ prev.n = "rx" /\ last.n = "rx"
    /\ userTracker = { 100 } /\ last.bytes = POINTER_BYTE_SIZE + 1

\* The opaque address kinds: *const T, *mut T, NonNull<T>, UnsafeCell<T>.
OpaqueKinds == { "constptr", "mutptr", "nonnull", "unsafecell" }

\* C11: an opaque address returns one pointer width when its address is
\* newly tracked and 0 when the tracker already held it, measures nothing
\* else and adds only that address to the tracker; the same pointer measured
\* twice with one tracker returns 0 the second time.
C11_OpaqueAddress ==
    /\ (Returned /\ Kind(last.n) \in OpaqueKinds)
       => /\ last.bytes = (IF Heap[last.n].to \in last.t0 THEN 0 ELSE POINTER_BYTE_SIZE)
          /\ last.fresh = (Heap[last.n].to \notin last.t0)
          /\ last.rets = << >>
          /\ tracker = last.t0 \cup { Heap[last.n].to }
    /\ (RootReturned /\ ~top /\ prev.n = last.n /\ ~prev.top
          /\ Kind(last.n) \in OpaqueKinds)
       => last.bytes = 0

\* test_pointer: the same *const i8 measured twice with one tracker.
C11_Witness ==
    /\ RootReturned /\ ~top /\ ~prev.top /\ prev.n = "p" /\ last.n = "p"
    /\ prev.bytes = POINTER_BYTE_SIZE /\ last.bytes = 0 /\ tracker = { 100 }

\* C12: a Box or an Arc returns its flat size plus the full size its pointee
\* returned and does not track the pointee's address: the tracker gains
\* nothing but what the pointee's own walk tracks, so each of several Arc
\* owners of one allocation is charged the payload again.
C12_OwnerNoTracking ==
    /\ (Returned /\ Kind(last.n) \in { "box", "arc" })
       => /\ Len(last.rets) = 1
          /\ last.bytes = FlatSize(last.n) + last.rets[1]
          /\ (Heap[Kids(last.n)[1]].addr \in tracker
                => Heap[Kids(last.n)[1]].addr \in last.t0)
          /\ (OwnedTree(Kids(last.n)[1], MaxDepth) => tracker = last.t0)
    /\ (Returned /\ Kind(last.n) = "vec")
       => \A i, j \in DOMAIN last.rets :
            (/\ Kind(Kids(last.n)[i]) = "arc" /\ Kind(Kids(last.n)[j]) = "arc"
             /\ Kids(Kids(last.n)[i]) = Kids(Kids(last.n)[j])
             /\ Kind(Kids(Kids(last.n)[i])[1]) = "prim")
            => /\ last.rets[i] = last.rets[j]
               /\ last.rets[i] = FlatSize(Kids(last.n)[i])
                                   + FlatSize(Kids(Kids(last.n)[i])[1])

\* A Vec of two Arc<i32> owners of one allocation: the i32 is charged twice.
C12_Witness ==
    /\ Returned /\ last.n = "owners" /\ last.rets = << 12, 12 >>
    /\ last.bytes = 24 + 2 * (POINTER_BYTE_SIZE + 4) /\ tracker = last.t0

\* C13: an Option or a Result returns its flat size plus the full size its
\* live payload returned; None returns its flat size, measures nothing and
\* leaves the tracker as it was; nothing but the live payload is measured.
C13_PresentPayload ==
    (Returned /\ Kind(last.n) \in { "option", "result" })
    => /\ Len(last.rets) = Len(Kids(last.n))
       /\ Len(last.rets) <= 1
       /\ (Kind(last.n) = "result" => Len(last.rets) = 1)
       /\ last.bytes = FlatSize(last.n) + SumSeq(last.rets)
       /\ (Kids(last.n) = << >>
             => last.bytes = FlatSize(last.n) /\ tracker = last.t0)
       /\ (last.n = "some" => last.bytes = 8 + 4)
       /\ (last.n = "err" => last.bytes = 4 + 2)

\* test_option: None::<i32> and then Some(1i32).
C13_Witness ==
    /\ RootReturned /\ prev.n = "none" /\ prev.bytes = 8
    /\ last.n = "some" /\ last.rets = << 4 >> /\ last.bytes = 12

LockKinds == { "mutex", "rwlock" }

\* The locks whose implementation is waiting for its protected value.
LocksInProgress ==
    { stack[i].n : i \in { j \in DOMAIN stack : Kind(stack[j].n) \in LockKinds } }

\* C14: the walk holds a lock exactly while the implementation of that
\* Mutex or RwLock is measuring the protected value: the lock is released
\* when that call returns, a returned walk holds none, no other thread
\* holds a Mutex or writes an RwLock the walk holds, and another thread can
\* take the lock as soon as the call has returned.
C14_ScopedLock ==
    /\ (pc = "idle" \/ RootReturned) => held = << >>
    /\ pc \in { "call", "ret", "blocked" } => Range(held) = LocksInProgress
    /\ (Returned /\ Kind(last.n) \in LockKinds) => last.n \notin Range(held)
    /\ \A m \in Range(held) : ~Contended(m)
    /\ (Returned /\ last.n \in MutatorLocks(world) /\ mutator = NoLock
          /\ last.n \notin poisoned)
       => ENABLED MutatorLock(last.n)

\* test_rwlock with a writer: the RwLock<i32> has been measured and the
\* writer that waited for it has taken it.
C14_Witness ==
    /\ RootReturned /\ last.n = "rw" /\ last.bytes = 16 + 4 /\ held = << >>
    /\ mutator = [lock |-> "rw", write |-> TRUE]

\* C15: a walk that reaches a poisoned Mutex or RwLock panics there: the
\* protected value is not measured, the tracker is not touched, nothing is
\* returned to any caller and the walk never goes on.
C15_PoisonAborts ==
    /\ [](pc = "panic" /\ why = "poison"
           => /\ Kind(cur) \in LockKinds /\ cur \in poisoned
              /\ held = << >>
              /\ (stack # << >> => Top.n # cur))
    /\ [][(pc = "call" /\ Kind(cur) \in LockKinds /\ cur \in poisoned /\ ctl' # ctl)
           => /\ pc' = "panic" /\ why' = "poison"
              /\ stack' = stack /\ last' = last /\ tracker' = tracker
              /\ prev' = prev]_vars
    /\ [][pc = "panic"
           => /\ pc' = "panic" /\ last' = last /\ prev' = prev
              /\ userTracker' = userTracker /\ ncalls' = ncalls]_vars

\* The walk of (i8, Mutex<i32>) has measured the i8 and panics at the
\* poisoned Mutex: the partial count is lost.
C15_Witness ==
    /\ pc = "panic" /\ why = "poison" /\ cur = "bad"
    /\ Len(stack) = 1 /\ Top.n = "wrap" /\ Top.rets = << 1 >>

\* C16: no step of a walk changes a value: the length and capacity of every
\* String and PathBuf stay what they were, no lock is taken from or given
\* to another thread, no lock is poisoned unless the walk panics, and a
\* walk that has returned holds no lock.
C16_NoMutation ==
    /\ [](RootReturned => held = << >>)
    /\ [][ctl' # ctl
           => /\ mem' = mem
              /\ mutator' = mutator
              /\ world' = world
              /\ (pc' # "panic" => poisoned' = poisoned)]_vars

\* The Mutex<String> another thread wrote "abc" to has been measured: the
\* String is as the writer left it.
C16_Witness ==
    /\ RootReturned /\ last.n = "ms" /\ last.bytes = 40 + 2 * POINTER_BYTE_SIZE + 3
    /\ mem["ms1"] = [len |-> 3, cap |-> 8] /\ mutator = NoLock

\* C17: a String or a PathBuf (that no other thread is writing) returns its
\* flat size plus the capacity of its buffer, whatever its length and
\* whatever the tracker holds, and leaves the tracker alone.
C17_BufferCapacity ==
    (/\ Returned /\ Kind(last.n) \in BufferKinds
     /\ \A m \in MutatorLocks(world) : last.n \notin Range(Kids(m)))
    => /\ last.bytes = FlatSize(last.n) + mem[last.n].cap
       /\ tracker = last.t0

\* C18: the derive emits an implementation for a struct and for an enum
\* and for nothing else; a program that derives on a union is never built,
\* so no call is ever made in it and no union is ever measured.
C18_UnionRejected ==
    /\ \A data \in { "struct", "enum", "union" } :
         (DeriveMemoryUsage(data) # "panic") = (data \in { "struct", "enum" })
    /\ pc # "build" => ((pc = "nobuild") = ("union" \in Derives(world)))
    /\ "union" \in Derives(world)
       => /\ pc \in { "build", "nobuild" }
          /\ ncalls = 0 /\ last = NoRet /\ tracker = { }
    /\ pc = "call" => Kind(cur) # "union"

\* The build of the program that derives on a union has failed.
C18_Witness ==
    /\ world = "union" /\ pc = "nobuild" /\ "union" \in Derives(world)
    /\ ncalls = 0

\* The kinds whose implementation calls track: the opaque addresses and the
\* references &T, &mut T, &[T].
TrackingKinds == OpaqueKinds \cup { "ref", "refmut", "sliceref" }

\* What a tracking value returns when its address is already in the tracker.
SeenCost(n) == IF Kind(n) \in OpaqueKinds THEN 0 ELSE FlatSize(n)

\* C19: the tracker's key is the bare start address: a pointer, NonNull,
\* UnsafeCell, &T, &mut T or &[T] whose address any of these kinds tracked
\* before, in the same walk or with the same tracker, adds no pointee cost:
\* a reference returns its flat size, an opaque address 0, and a longer
\* slice at the address of a shorter one measures none of its elements.
C19_BareAddressKey ==
    /\ (Returned /\ Kind(last.n) \in TrackingKinds /\ Heap[last.n].to \in last.t0)
       => /\ last.bytes = SeenCost(last.n)
          /\ last.rets = << >>
          /\ tracker = last.t0
    /\ (Returned /\ Len(last.rets) = Len(Kids(last.n)))
       => \A i, j \in DOMAIN last.rets :
            (/\ i < j
             /\ Kind(Kids(last.n)[i]) \in TrackingKinds
             /\ Kind(Kids(last.n)[j]) \in TrackingKinds
             /\ Heap[Kids(last.n)[i]].to = Heap[Kids(last.n)[j]].to)
            => last.rets[j] = SeenCost(Kids(last.n)[j])
    /\ (RootReturned /\ ~top /\ prev.n # "" /\ ~prev.top
          /\ Kind(prev.n) \in TrackingKinds /\ Kind(last.n) \in TrackingKinds
          /\ Heap[prev.n].to = Heap[last.n].to)
       => last.bytes = SeenCost(last.n)
    /\ tracker \cup userTracker
         \subseteq { Heap[n].to : n \in DOMAIN Heap } \cup PreAddrs(world)

\* &[i16] of two elements, then &[i16] of three at the same address, with
\* one tracker: the second returns the size of the fat pointer alone.
C19_Witness ==
    /\ RootReturned /\ ~top /\ ~prev.top /\ prev.n = "sl" /\ last.n = "sl3"
    /\ prev.bytes = 2 * POINTER_BYTE_SIZE + 4 /\ last.bytes = 2 * POINTER_BYTE_SIZE
    /\ last.rets = << >>

\* C20: a walk's tracker changes only in the step that enters a reference,
\* a raw pointer, a NonNull or an UnsafeCell, and gains that value's target
\* address; a value that owns all it reaches leaves the tracker as it was;
\* so a reference to an address met before by ownership only finds it new
\* and adds its pointee again.
C20_OwnedNotTracked ==
    /\ [][(tracker' # tracker /\ pc \in { "call", "ret" } /\ pc' # "idle")
           => /\ pc = "call" /\ Kind(cur) \in TrackingKinds
              /\ tracker' = tracker \cup { Heap[cur].to }]_vars
    /\ []((Returned /\ OwnedTree(last.n, MaxDepth)) => tracker = last.t0)
    /\ []((Returned /\ Kind(last.n) \in { "ref", "refmut", "sliceref" }
              /\ Heap[last.n].to \notin last.t0)
           => /\ last.fresh /\ Len(last.rets) = 1
              /\ last.bytes = FlatSize(last.n) + last.rets[1])
    /\ []((Returned /\ last.n = "both" /\ last.t0 = { })
           => last.rets = << 8 + (8 + 4), 8 + 4 >> /\ last.bytes = 16 + 12 + 4)

\* (&Box<(i8, i16)>, &(i8, i16)): the tuple in the Box is measured through
\* the Box, then again through the reference to it.
C20_Witness ==
    /\ Returned /\ last.n = "both" /\ last.t0 = { }
    /\ last.rets = << 20, 12 >> /\ last.bytes = 32 /\ tracker = { 504, 960 }

====
